---- MODULE Spec2Model ----
(***************************************************************************)
(* Model of the tender filter pipeline of oman_tender_scraper.py           *)
(* (OmanTenderScraper.run and the methods it calls) and of the filter and  *)
(* organize loops of comprehensive_filter_tenders.py.                      *)
(*                                                                         *)
(* Python strings are TLA+ strings (sequences of characters); a tender is  *)
(* a Python dict, modelled as a function from field names to strings.      *)
(* Dicts are objects: the lists of the program hold references to them,    *)
(* modelled as indices into `heap`.                                        *)
(***************************************************************************)
EXTENDS Integers, Sequences, FiniteSets, TLC

(***************************************************************************)
(* Bounds of the model.                                                    *)
(***************************************************************************)
MaxTenders == 2     \* longest tenders.json list explored
MaxClock == 1       \* number of clock ticks explored

(***************************************************************************)
(* Strings.                                                                *)
(***************************************************************************)
ascii_uppercase == "ABCDEFGHIJKLMNOPQRSTUVWXYZ"
ascii_lowercase == "abcdefghijklmnopqrstuvwxyz"

CharAt(s, n) == SubSeq(s, n, n)

\* per-character case maps of str.lower() / str.upper() on ASCII text
ToLower ==
  [c \in {CharAt(ascii_uppercase, n) : n \in 1..26} |->
     CharAt(ascii_lowercase, CHOOSE n \in 1..26 : CharAt(ascii_uppercase, n) = c)]

ToUpper ==
  [c \in {CharAt(ascii_lowercase, n) : n \in 1..26} |->
     CharAt(ascii_uppercase, CHOOSE n \in 1..26 : CharAt(ascii_lowercase, n) = c)]

RECURSIVE MapChars(_, _)
MapChars(f, s) ==
  IF s = "" THEN ""
  ELSE LET c == CharAt(s, 1)
       IN (IF c \in DOMAIN f THEN f[c] ELSE c) \o MapChars(f, SubSeq(s, 2, Len(s)))

\* str.lower()
lower(s) == MapChars(ToLower, s)

\* str.upper()
upper(s) == MapChars(ToUpper, s)

\* Python's `sub in s` on strings: sub occurs at some offset of s
In(sub, s) ==
  \E off \in 0..(Len(s) - Len(sub)) : SubSeq(s, off + 1, off + Len(sub)) = sub

\* sep.join(parts)
RECURSIVE join(_, _)
join(sep, parts) ==
  IF Len(parts) = 0 THEN ""
  ELSE IF Len(parts) = 1 THEN parts[1]
  ELSE parts[1] \o sep \o join(sep, Tail(parts))

\* c * n
RECURSIVE Repeat(_, _)
Repeat(c, n) == IF n <= 0 THEN "" ELSE c \o Repeat(c, n - 1)

(***************************************************************************)
(* The watchlists.                                                         *)
(***************************************************************************)
keywords ==
  << "ai infrastructure", "cloud", "vmware", "infrastructure as a service",
     "digital transformation", "scaling", "migration", "gpu", "llm", "oracle",
     "chatbot", "ai", "machine learning", "artificial intelligence",
     "cloud computing", "data center", "virtualization", "devops",
     "microservices", "database", "analytics", "big data" >>

monitored_entities ==
  << "bank muscat", "bank dhofar", "sohar international bank", "bank nizwa",
     "al izz islamic bank", "oman housing bank", "national bank of oman",
     "al ahli bank", "central bank of oman", "oman arab bank",
     "oman development bank", "muscat clearing depository", "dhofar insurance",
     "omantel", "vodafone", "ooredoo", "oman broadband company",
     "telecommunication regulatory authority",
     "petroleum development oman", "oq", "british petroleum", "mb petroleum",
     "oman oil marketing", "daleel", "minerals development oman",
     "ministry of finance", "ministry of health", "ministry of defense",
     "ministry of technology and communications", "ministry of oil",
     "ministry of interior", "ministry",
     "royal oman police", "royal air force of oman", "royal navy of oman",
     "sultan special forces", "internal security service",
     "royal hospital", "sultan qaboos university hospital",
     "armed forces hospital", "hospital",
     "sultan qaboos university", "university of applied sciences",
     "dhofar university", "university" >>

\* keyword.lower() / monitored_entity.lower() for each entry of a watchlist
LowerAll(list) == [n \in 1..Len(list) |-> lower(list[n])]
keywords_lower == LowerAll(keywords)
monitored_entities_lower == LowerAll(monitored_entities)

(***************************************************************************)
(* Dicts.                                                                  *)
(***************************************************************************)
\* d[k] = v
SetItem(d, k, v) == [f \in (DOMAIN d) \cup {k} |-> IF f = k THEN v ELSE d[f]]

\* datetime.now().isoformat() at clock value t
isoformat(t) == "T" \o ToString(t)

\* datetime.now().strftime('%Y-%m-%d %H:%M:%S') at clock value t
strftime(t) == "D" \o ToString(t)

(***************************************************************************)
(* tenders.json: the records the model explores.                           *)
(***************************************************************************)
Tender(no, title, entity, date) ==
  ("Tender No" :> no) @@ ("Tender Title" :> title) @@ ("Entity" :> entity)
    @@ ("Date" :> date)

\* dict without key k
Without(d, k) == [f \in (DOMAIN d) \ {k} |-> d[f]]

SampleTenders ==
  { Tender("T-001", "Cloud Migration Services for Data Center",
           "Ministry of Finance", "2025-01-05") @@ ("Category" :> "IT"),
    Tender("T-002", "Office Furniture Supply", "Al Noor Trading LLC", "2025-01-06"),
    Tender("T-003", "Core Banking Upgrade", "Bank Muscat", "2025-01-07"),
    Tender("T-004", "AI chatbot", "", "2025-01-08"),
    Tender("T-005", "Payment Gateway", "BANK MUSCAT", "2025-01-09"),
    Without(Tender("T-006", "Cloud Hosting", "", "2025-01-10"), "Entity"),
    Without(Tender("T-007", "", "Omantel", "2025-01-11"), "Tender Title"),
    Tender("T-008", "", "", "2025-01-12"),
    Without(Without(Tender("T-010", "", "", "2025-01-13"), "Entity"), "Tender Title"),
    Without(Tender("T-009", "GPU Cluster", "Bank Muscat", ""), "Date") }

RECURSIVE SeqsUpTo(_, _)
SeqsUpTo(S, n) ==
  IF n = 0 THEN {<<>>}
  ELSE LET shorter == SeqsUpTo(S, n - 1)
       IN shorter \cup {Append(q, x) : q \in {r \in shorter : Len(r) = n - 1}, x \in S}

TenderLists == SeqsUpTo(SampleTenders, MaxTenders)

\* what open("tenders.json") finds: no file, or a JSON list of records
Files ==
  {[exists |-> FALSE, content |-> <<>>]}
    \cup {[exists |-> TRUE, content |-> c] : c \in TenderLists}

(***************************************************************************)
(* State.                                                                  *)
(***************************************************************************)
VARIABLES
  file,               \* tenders.json on disk
  clock,              \* the wall clock read by datetime.now()
  pc,                 \* position in run() / in the calling sequence
  heap,               \* the dict objects created by json.load, by reference
  all_tenders,        \* run: list of references returned by scrape_tenders
  tenders,            \* filter_tenders: its parameter, a list of references
  i,                  \* filter_tenders: position of the for loop in tenders
  filtered_tenders,   \* filter_tenders: the list being built
  run_filtered,       \* run: filtered_tenders, assigned when the call returns
  organized_tenders,  \* run: the ordered mapping, a list of [key, value] items
  output_json,        \* the output file written by save_results
  report,             \* run: the report text, as its list of lines
  report_file,        \* the report file written by run
  error,              \* the exception that left run, if any
  ret,                \* the value returned by run
  call,               \* direct use of filter_tenders: number of the call
  first_result,       \* direct use: the list returned by call 1, by value
  second_result       \* direct use: the list returned by call 2, by value

vars ==
  << file, clock, pc, heap, all_tenders, tenders, i, filtered_tenders,
     run_filtered, organized_tenders, output_json, report, report_file,
     error, ret, call, first_result, second_result >>

NoError == [raised |-> FALSE, type |-> "", arg |-> ""]
KeyError(k) == [raised |-> TRUE, type |-> "KeyError", arg |-> k]
NoFile == [written |-> FALSE, content |-> <<>>]
Written(c) == [written |-> TRUE, content |-> c]
NotReturned == [returned |-> FALSE, none |-> FALSE, value |-> <<>>]
ReturnedNone == [returned |-> TRUE, none |-> TRUE, value |-> <<>>]
Returned(v) == [returned |-> TRUE, none |-> FALSE, value |-> v]

Refs(n) == [r \in 1..n |-> r]

(***************************************************************************)
(* filter_tenders, one iteration of its loop per step.                     *)
(***************************************************************************)
\* any(w.lower() in text for w in watchlist)
any_match(lowered, text) == \E n \in 1..Len(lowered) : In(lowered[n], text)

\* variant: the comprehension stops at the first entry that occurs
matching_first_only(list, lowered, text) ==
  LET hits == SelectSeq(Refs(Len(list)), LAMBDA n : In(lowered[n], text))
  IN IF Len(hits) = 0 THEN <<>> ELSE <<list[hits[1]]>>

\* [w for w in watchlist if w.lower() in text]
matching(list, lowered, text) ==
  LET hits == SelectSeq(Refs(Len(list)), LAMBDA n : In(lowered[n], text))
  IN [m \in 1..Len(hits) |-> list[hits[m]]]

keyword_match(title) == any_match(keywords_lower, title)
entity_match(entity) == any_match(monitored_entities_lower, entity)
matching_keywords(title) == matching(keywords, keywords_lower, title)
matching_entities(entity) == matching(monitored_entities, monitored_entities_lower, entity)

\* variant: the entity clause is appended before the keyword clause
match_reasons_entity_first(title, entity) ==
  (IF entity_match(entity)
     THEN << "Entity: " \o join(", ", matching_entities(entity)) >> ELSE <<>>)
  \o
  (IF keyword_match(title)
     THEN << "Keywords: " \o join(", ", matching_keywords(title)) >> ELSE <<>>)

\* the list match_reasons for lower-cased title and entity
match_reasons(title, entity) ==
  (IF keyword_match(title)
     THEN << "Keywords: " \o join(", ", matching_keywords(title)) >> ELSE <<>>)
  \o
  (IF entity_match(entity)
     THEN << "Entity: " \o join(", ", matching_entities(entity)) >> ELSE <<>>)

\* variant: the new reason is appended to a reason the dict already has
match_reason_accumulating(t) ==
  LET new == join("; ", match_reasons(lower(t["Tender Title"]), lower(t["Entity"])))
  IN IF "Match_Reason" \in DOMAIN t THEN t["Match_Reason"] \o "; " \o new ELSE new

\* the value stored under "Match_Reason" for tender dict t
match_reason(t) ==
  join("; ", match_reasons(lower(t["Tender Title"]), lower(t["Entity"])))

\* variant: `and` in place of `or`
is_match_both(t) ==
  keyword_match(lower(t["Tender Title"])) /\ entity_match(lower(t["Entity"]))

\* the condition of the if statement for tender dict t
is_match(t) ==
  keyword_match(lower(t["Tender Title"])) \/ entity_match(lower(t["Entity"]))

\* the dict after the two assignments of a kept tender, at clock value now
annotate(t, now) ==
  SetItem(SetItem(t, "Match_Reason", match_reason(t)), "Scraped_At", isoformat(now))

\* variant: 'Entity' is looked up before 'Tender Title'
missing_key_entity_first(t) ==
  IF "Entity" \notin DOMAIN t THEN "Entity"
  ELSE IF "Tender Title" \notin DOMAIN t THEN "Tender Title"
  ELSE ""

\* the first key whose lookup fails at the top of the loop body, "" if none
missing_key(t) ==
  IF "Tender Title" \notin DOMAIN t THEN "Tender Title"
  ELSE IF "Entity" \notin DOMAIN t THEN "Entity"
  ELSE ""

\* the list of dicts a list of references denotes
Deref(h, refs) == [n \in 1..Len(refs) |-> h[refs[n]]]

\* loop body, lines 83-104, for a tender whose two lookups succeed
FilterStep ==
  /\ pc = "filter"
  /\ i <= Len(tenders)
  /\ LET r == tenders[i]
         t == heap[r]
     IN /\ missing_key(t) = ""
        /\ IF is_match(t)
             THEN /\ heap' = [heap EXCEPT ![r] = annotate(t, clock)]
                  /\ filtered_tenders' = Append(filtered_tenders, r)
             ELSE UNCHANGED << heap, filtered_tenders >>
  /\ i' = i + 1
  /\ UNCHANGED << file, clock, pc, all_tenders, tenders, run_filtered,
                  organized_tenders, output_json, report, report_file, error,
                  ret, call, first_result, second_result >>

\* loop body, lines 83-84, for a tender without 'Tender Title' or 'Entity':
\* the KeyError leaves filter_tenders and its caller
FilterRaise ==
  /\ pc = "filter"
  /\ i <= Len(tenders)
  /\ missing_key(heap[tenders[i]]) # ""
  /\ error' = KeyError(missing_key(heap[tenders[i]]))
  /\ pc' = "done"
  /\ UNCHANGED << file, clock, heap, all_tenders, tenders, i, filtered_tenders,
                  run_filtered, organized_tenders, output_json, report,
                  report_file, ret, call, first_result, second_result >>

(***************************************************************************)
(* organize_by_entity.                                                     *)
(***************************************************************************)
\* entity in organized_tenders
HasKey(org, k) == \E n \in 1..Len(org) : org[n].key = k

RECURSIVE organize_from(_, _, _)
organize_from(h, ts, org) ==
  IF Len(ts) = 0 THEN org
  ELSE LET r == Head(ts)
           entity == h[r]["Entity"]
           created == IF ~HasKey(org, entity)
                        THEN Append(org, [key |-> entity, value |-> <<>>])
                        ELSE org
           appended == [n \in 1..Len(created) |->
                          IF created[n].key = entity
                            THEN [created[n] EXCEPT !.value = Append(@, r)]
                            ELSE created[n]]
       IN organize_from(h, Tail(ts), appended)

\* variant: each match replaces the list of its key
organize_by_entity_overwrite(h, ts) ==
  LET org == organize_from(h, ts, <<>>)
  IN [n \in 1..Len(org) |->
        [key |-> org[n].key, value |-> <<org[n].value[Len(org[n].value)]>>]]

\* variant: the key is the lower-cased entity name
organize_by_entity_folded(h, ts) ==
  organize_from([r \in 1..Len(h) |->
                   IF "Entity" \in DOMAIN h[r]
                     THEN SetItem(h[r], "Entity", lower(h[r]["Entity"]))
                     ELSE h[r]],
                ts, <<>>)

organize_by_entity(h, ts) == organize_from(h, ts, <<>>)

(***************************************************************************)
(* save_results and generate_report.                                       *)
(***************************************************************************)
\* json.dump(organized_tenders): the mapping by value
dump(h, org) ==
  [n \in 1..Len(org) |-> [key |-> org[n].key, value |-> Deref(h, org[n].value)]]

RuleWidth == 50

RECURSIVE Sum(_)
Sum(ns) == IF Len(ns) = 0 THEN 0 ELSE Head(ns) + Sum(Tail(ns))

RECURSIVE Concat(_)
Concat(lists) == IF Len(lists) = 0 THEN <<>> ELSE Head(lists) \o Concat(Tail(lists))

\* variant: the keys are counted, not their tenders
total_tenders_keys(org) == Len(org)

\* sum(len(entity_tenders) for entity_tenders in organized_tenders.values())
total_tenders(org) == Sum([n \in 1..Len(org) |-> Len(org[n].value)])

\* the three lines and the blank line of one tender (the bullet is U+2022
\* in the source, written * here)
tender_lines(t) ==
  << "  * " \o t["Tender No"] \o ": " \o t["Tender Title"],
     "    Date: " \o t["Date"],
     "    Match Reason: " \o t["Match_Reason"],
     "" >>

\* the lines one entity adds to the detail section
entity_block(h, item) ==
  << "", upper(item.key) \o ":", Repeat("-", Len(item.key)) >>
  \o Concat([m \in 1..Len(item.value) |-> tender_lines(h[item.value[m]])])

\* the report text, split at its newlines
generate_report(h, org, now) ==
  << "",
     "OMAN TENDER BOARD SCRAPING REPORT",
     "Generated: " \o strftime(now),
     Repeat("=", RuleWidth),
     "",
     "SUMMARY:",
     "- Total filtered tenders: " \o ToString(total_tenders(org)),
     "- Unique entities: " \o ToString(Len(org)),
     "",
     "ENTITIES WITH MATCHING TENDERS:" >>
  \o [n \in 1..Len(org) |->
        "- " \o org[n].key \o ": " \o ToString(Len(org[n].value)) \o " tender(s)"]
  \o << "", "DETAILED RESULTS:", Repeat("=", RuleWidth) >>
  \o Concat([n \in 1..Len(org) |-> entity_block(h, org[n])])

\* the first key whose lookup fails while the detail section is built, "" if none
report_missing_key(h, org) ==
  LET refs == Concat([n \in 1..Len(org) |-> org[n].value])
      bad == {n \in 1..Len(refs) :
                {"Tender No", "Tender Title", "Date", "Match_Reason"}
                  \ DOMAIN h[refs[n]] # {}}
  IN IF bad = {} THEN ""
     ELSE LET t == h[refs[CHOOSE n \in bad : \A m \in bad : n <= m]]
          IN IF "Tender No" \notin DOMAIN t THEN "Tender No"
             ELSE IF "Tender Title" \notin DOMAIN t THEN "Tender Title"
             ELSE IF "Date" \notin DOMAIN t THEN "Date"
             ELSE "Match_Reason"

(***************************************************************************)
(* run.                                                                    *)
(***************************************************************************)
\* variant: `all_tenders is None`
falsy_never(list) == FALSE

\* `not all_tenders`
falsy(list) == Len(list) = 0

\* scrape_tenders: the list loaded from tenders.json, [] without the file
scrape_tenders(f) == IF f.exists THEN f.content ELSE <<>>

\* lines 159-162: load, and leave when nothing was loaded
Scrape ==
  /\ pc = "start"
  /\ heap' = scrape_tenders(file)
  /\ all_tenders' = Refs(Len(heap'))
  /\ IF falsy(all_tenders')
       THEN /\ pc' = "done"
            /\ ret' = ReturnedNone
            /\ UNCHANGED << tenders, i, filtered_tenders >>
       ELSE /\ pc' = "filter"
            /\ tenders' = all_tenders'
            /\ i' = 1
            /\ filtered_tenders' = <<>>
            /\ UNCHANGED ret
  /\ UNCHANGED << file, clock, run_filtered, organized_tenders, output_json,
                  report, report_file, error, call, first_result, second_result >>

\* line 165: filter_tenders returns to run
FilterReturn ==
  /\ pc = "filter"
  /\ call = 0
  /\ i > Len(tenders)
  /\ run_filtered' = filtered_tenders
  /\ pc' = "organize"
  /\ UNCHANGED << file, clock, heap, all_tenders, tenders, i, filtered_tenders,
                  organized_tenders, output_json, report, report_file, error,
                  ret, call, first_result, second_result >>

\* line 169
Organize ==
  /\ pc = "organize"
  /\ organized_tenders' = organize_by_entity(heap, run_filtered)
  /\ pc' = "save"
  /\ UNCHANGED << file, clock, heap, all_tenders, tenders, i, filtered_tenders,
                  run_filtered, output_json, report, report_file, error, ret,
                  call, first_result, second_result >>

\* line 172
SaveResults ==
  /\ pc = "save"
  /\ output_json' = Written(dump(heap, organized_tenders))
  /\ pc' = "report"
  /\ UNCHANGED << file, clock, heap, all_tenders, tenders, i, filtered_tenders,
                  run_filtered, organized_tenders, report, report_file, error,
                  ret, call, first_result, second_result >>

\* line 175
GenerateReport ==
  /\ pc = "report"
  /\ IF report_missing_key(heap, organized_tenders) = ""
       THEN /\ report' = generate_report(heap, organized_tenders, clock)
            /\ pc' = "write"
            /\ UNCHANGED error
       ELSE /\ error' = KeyError(report_missing_key(heap, organized_tenders))
            /\ pc' = "done"
            /\ UNCHANGED report
  /\ UNCHANGED << file, clock, heap, all_tenders, tenders, i, filtered_tenders,
                  run_filtered, organized_tenders, output_json, report_file,
                  ret, call, first_result, second_result >>

\* lines 176-185
WriteReport ==
  /\ pc = "write"
  /\ report_file' = Written(report)
  /\ ret' = Returned(organized_tenders)
  /\ pc' = "done"
  /\ UNCHANGED << file, clock, heap, all_tenders, tenders, i, filtered_tenders,
                  run_filtered, organized_tenders, output_json, report, error,
                  call, first_result, second_result >>

\* time passes while the program runs
Tick ==
  /\ pc # "done"
  /\ clock < MaxClock
  /\ clock' = clock + 1
  /\ UNCHANGED << file, pc, heap, all_tenders, tenders, i, filtered_tenders,
                  run_filtered, organized_tenders, output_json, report,
                  report_file, error, ret, call, first_result, second_result >>

Init ==
  /\ file \in Files
  /\ clock = 0
  /\ pc = "start"
  /\ heap = <<>>
  /\ all_tenders = <<>>
  /\ tenders = <<>>
  /\ i = 1
  /\ filtered_tenders = <<>>
  /\ run_filtered = <<>>
  /\ organized_tenders = <<>>
  /\ output_json = NoFile
  /\ report = <<>>
  /\ report_file = NoFile
  /\ error = NoError
  /\ ret = NotReturned
  /\ call = 0
  /\ first_result = <<>>
  /\ second_result = <<>>

Next ==
  \/ Scrape
  \/ FilterStep
  \/ FilterRaise
  \/ FilterReturn
  \/ Organize
  \/ SaveResults
  \/ GenerateReport
  \/ WriteReport
  \/ Tick

Spec == Init /\ [][Next]_vars

(***************************************************************************)
(* filter_tenders called directly, twice, on one list of loaded records:   *)
(* the second call gets the same list or the list the first call returned. *)
(***************************************************************************)
DirectReturn1 ==
  /\ pc = "filter"
  /\ call = 1
  /\ i > Len(tenders)
  /\ first_result' = Deref(heap, filtered_tenders)
  /\ tenders' \in {tenders, filtered_tenders}
  /\ call' = 2
  /\ i' = 1
  /\ filtered_tenders' = <<>>
  /\ UNCHANGED << file, clock, pc, heap, all_tenders, run_filtered,
                  organized_tenders, output_json, report, report_file, error,
                  ret, second_result >>

DirectReturn2 ==
  /\ pc = "filter"
  /\ call = 2
  /\ i > Len(tenders)
  /\ second_result' = Deref(heap, filtered_tenders)
  /\ pc' = "done"
  /\ UNCHANGED << file, clock, heap, all_tenders, tenders, i, filtered_tenders,
                  run_filtered, organized_tenders, output_json, report,
                  report_file, error, ret, call, first_result >>

InitDirect ==
  /\ file \in {f \in Files : f.exists}
  /\ clock = 0
  /\ pc = "filter"
  /\ heap = file.content
  /\ all_tenders = Refs(Len(heap))
  /\ tenders = all_tenders
  /\ i = 1
  /\ filtered_tenders = <<>>
  /\ run_filtered = <<>>
  /\ organized_tenders = <<>>
  /\ output_json = NoFile
  /\ report = <<>>
  /\ report_file = NoFile
  /\ error = NoError
  /\ ret = NotReturned
  /\ call = 1
  /\ first_result = <<>>
  /\ second_result = <<>>

NextDirect ==
  \/ FilterStep
  \/ FilterRaise
  \/ DirectReturn1
  \/ DirectReturn2
  \/ Tick

SpecDirect == InitDirect /\ [][NextDirect]_vars

(***************************************************************************)
(* Vocabulary of the properties.  The expectations below are stated over   *)
(* the records as loaded (file.content), not over the program's own        *)
(* intermediate values.                                                    *)
(***************************************************************************)
Range(q) == {q[n] : n \in 1..Len(q)}

StartsWith(s, p) == Len(p) <= Len(s) /\ SubSeq(s, 1, Len(p)) = p

\* s = x \o sub \o y for some x and y
Occurs(sub, s) ==
  \E a \in 0..Len(s) : a + Len(sub) <= Len(s) /\ SubSeq(s, a + 1, a + Len(sub)) = sub

\* the entries of a watchlist that occur, case-insensitively, in text
RECURSIVE Occurring(_, _)
Occurring(list, text) ==
  IF Len(list) = 0 THEN <<>>
  ELSE (IF Occurs(lower(Head(list)), lower(text)) THEN <<Head(list)>> ELSE <<>>)
         \o Occurring(Tail(list), text)

\* the least offset at which sub occurs in s, -1 if it does not
Find(sub, s) ==
  IF ~Occurs(sub, s) THEN -1
  ELSE CHOOSE a \in 0..Len(s) :
         /\ a + Len(sub) <= Len(s)
         /\ SubSeq(s, a + 1, a + Len(sub)) = sub
         /\ \A b \in 0..(a - 1) : SubSeq(s, b + 1, b + Len(sub)) # sub

\* s.split(sep)
RECURSIVE Split(_, _)
Split(s, sep) ==
  LET a == Find(sep, s)
  IN IF a = -1 THEN <<s>>
     ELSE <<SubSeq(s, 1, a)>> \o Split(SubSeq(s, a + Len(sep) + 1, Len(s)), sep)

\* the keywords a Match_Reason lists: the items of its "Keywords: " clause
ListedKeywords(reason) ==
  IF ~StartsWith(reason, "Keywords: ") THEN <<>>
  ELSE Split(Head(Split(SubSeq(reason, Len("Keywords: ") + 1, Len(reason)), "; ")), ", ")

\* the records run() loaded, by reference
Loaded == 1..Len(heap)
Original(r) == file.content[r]

WellFormed(t) == {"Tender Title", "Entity"} \subseteq DOMAIN t
Malformed == {r \in 1..Len(file.content) : ~WellFormed(file.content[r])}

\* the occurring watchlist entries of every title and entity name of the input
Titles == {t["Tender Title"] : t \in {s \in SampleTenders : "Tender Title" \in DOMAIN s}}
Entities == {t["Entity"] : t \in {s \in SampleTenders : "Entity" \in DOMAIN s}}
KeywordsIn == [text \in Titles |-> Occurring(keywords, text)]
EntitiesIn == [text \in Entities |-> Occurring(monitored_entities, text)]

ExpectedKeywords(t) == KeywordsIn[t["Tender Title"]]
ExpectedEntities(t) == EntitiesIn[t["Entity"]]
ExpectedMatch(t) == ExpectedKeywords(t) # <<>> \/ ExpectedEntities(t) # <<>>

\* filter_tenders has just returned to run
Filtered == pc = "organize"

\* C1: after filter_tenders, every tender whose lower-cased title contains a
\* lower-cased watchlist keyword is kept, and the keywords its Match_Reason
\* lists are exactly the watchlist keywords occurring in the title, in
\* watchlist order.
C1_KeywordsListed ==
  Filtered =>
    \A r \in Loaded :
      ExpectedKeywords(Original(r)) # <<>> =>
        /\ r \in Range(run_filtered)
        /\ ListedKeywords(heap[r]["Match_Reason"]) = ExpectedKeywords(Original(r))

C1_Witness ==
  /\ Filtered
  /\ \E r \in Loaded :
       /\ Len(ExpectedKeywords(Original(r))) >= 2
       /\ r \in Range(run_filtered)

\* C2: a tender is in the filtered output iff a keyword occurs in its title
\* or a monitored entity occurs in its entity name; a tender with neither is
\* in no entity group, not in the JSON output and not in the report.
C2_KeptIffMatch ==
  /\ Filtered =>
       run_filtered = SelectSeq(all_tenders, LAMBDA r : ExpectedMatch(Original(r)))
  /\ pc = "save" =>
       \A r \in Loaded :
         ExpectedMatch(Original(r))
           <=> \E n \in 1..Len(organized_tenders) : r \in Range(organized_tenders[n].value)
  /\ (pc = "done" /\ report_file.written) =>
       \A r \in Loaded :
         LET no == Original(r)["Tender No"]
             inJson == \E n \in 1..Len(output_json.content) :
                         \E t \in Range(output_json.content[n].value) : t["Tender No"] = no
             inReport == \E line \in Range(report_file.content) :
                           StartsWith(line, "  * " \o no \o ": ")
         IN /\ ExpectedMatch(Original(r)) <=> inJson
            /\ ExpectedMatch(Original(r)) <=> inReport

C2_Witness ==
  /\ pc = "done"
  /\ report_file.written
  /\ \E r \in Loaded : ~ExpectedMatch(Original(r))
  /\ \E r \in Loaded : ExpectedMatch(Original(r))

\* the clause label \o the items separated by ", "
RECURSIVE CommaList(_)
CommaList(items) ==
  IF Len(items) = 1 THEN items[1] ELSE items[1] \o ", " \o CommaList(Tail(items))

ExpectedReason(t) ==
  LET kw == ExpectedKeywords(t)
      en == ExpectedEntities(t)
      kwClause == "Keywords: " \o CommaList(kw)
      enClause == "Entity: " \o CommaList(en)
  IN IF kw # <<>> /\ en # <<>> THEN kwClause \o "; " \o enClause
     ELSE IF kw # <<>> THEN kwClause
     ELSE enClause

\* C3: the Match_Reason of every kept tender is the keyword clause (present
\* iff a keyword matched), then the entity clause (present iff an entity
\* matched), joined by "; ", and is never empty.
C3_ReasonFormat ==
  Filtered =>
    \A r \in Range(run_filtered) :
      /\ heap[r]["Match_Reason"] = ExpectedReason(Original(r))
      /\ heap[r]["Match_Reason"] # ""

C3_Witness ==
  /\ Filtered
  /\ \E r \in Range(run_filtered) :
       ExpectedKeywords(Original(r)) # <<>> /\ ExpectedEntities(Original(r)) # <<>>
  /\ \E r \in Range(run_filtered) :
       ExpectedKeywords(Original(r)) = <<>>

\* number of positions of q holding x
Count(q, x) == Cardinality({n \in 1..Len(q) : q[n] = x})

\* the lists of all keys of a mapping, concatenated in key order
Flatten(org) == Concat([n \in 1..Len(org) |-> org[n].value])

\* organize_by_entity has just returned to run
Organized == pc = "save"

\* C4: concatenating the lists of all keys of the mapping returned by
\* organize_by_entity yields the matches passed in, each as often as in the
\* input, and no key has an empty list.
C4_GroupingKeepsAll ==
  Organized =>
    /\ \A r \in Loaded :
         Count(Flatten(organized_tenders), r) = Count(run_filtered, r)
    /\ Len(Flatten(organized_tenders)) = Len(run_filtered)
    /\ \A n \in 1..Len(organized_tenders) : organized_tenders[n].value # <<>>

C4_Witness ==
  /\ Organized
  /\ Len(run_filtered) >= 2

\* the entity names of the matches, in input order
EntityNames == [n \in 1..Len(run_filtered) |-> heap[run_filtered[n]]["Entity"]]

\* the positions of q holding the first occurrence of their value
FirstOccurrences(q) ==
  SelectSeq(Refs(Len(q)), LAMBDA n : \A m \in 1..(n - 1) : q[m] # q[n])

\* C5: the keys of the mapping are the exact entity strings of the matches,
\* in order of first occurrence, each once; the list of a key holds the
\* matches of that entity in their input order.
C5_GroupingOrder ==
  Organized =>
    LET firsts == FirstOccurrences(EntityNames)
    IN /\ Len(organized_tenders) = Len(firsts)
       /\ \A n \in 1..Len(organized_tenders) :
            /\ organized_tenders[n].key = EntityNames[firsts[n]]
            /\ organized_tenders[n].value =
                 SelectSeq(run_filtered,
                           LAMBDA r : heap[r]["Entity"] = organized_tenders[n].key)

C5_Witness ==
  /\ Organized
  /\ \E n \in 1..Len(organized_tenders) : Len(organized_tenders[n].value) = 2

\* two names that differ only in case are two keys, and "" is a key
C5_WitnessDistinctCase ==
  /\ Organized
  /\ Len(organized_tenders) = 2
  /\ lower(organized_tenders[1].key) = lower(organized_tenders[2].key)

\* the input sequence is empty: an empty list in tenders.json
EmptyInput == file.exists /\ file.content = <<>>

\* C6 as stated: a run over an empty input completes the pipeline with an
\* empty mapping and a report stating zero matches.
C6_EmptyRunReports ==
  (pc = "done" /\ EmptyInput) =>
    /\ ~error.raised
    /\ ret = Returned(<<>>)
    /\ report_file.written
    /\ "- Total filtered tenders: 0" \in Range(report_file.content)

\* C6 amended: a run over an empty input raises nothing, but returns None
\* right after loading: no mapping, no JSON file and no report are produced.
C6_EmptyRunStops ==
  (pc = "done" /\ EmptyInput) =>
    /\ ~error.raised
    /\ ret = ReturnedNone
    /\ organized_tenders = <<>>
    /\ ~output_json.written
    /\ ~report_file.written

C6_Witness ==
  /\ pc = "done"
  /\ EmptyInput
  /\ ret.returned

\* the first record of the input that lacks 'Tender Title' or 'Entity'
FirstMalformed == CHOOSE r \in Malformed : \A q \in Malformed : r <= q

NoOutput ==
  /\ ~ret.returned
  /\ run_filtered = <<>>
  /\ organized_tenders = <<>>
  /\ ~output_json.written
  /\ ~report_file.written

\* C7 as stated: a record lacking 'Tender Title' or 'Entity' makes the run
\* fail with MalformedRecordError identifying the record, without output.
C7_MalformedRecordError ==
  (pc = "done" /\ Malformed # {}) =>
    /\ error.raised
    /\ error.type = "MalformedRecordError"
    /\ error.arg = file.content[FirstMalformed]["Tender No"]
    /\ NoOutput

\* C7 amended: a record lacking 'Tender Title' or 'Entity' makes the run
\* fail with a KeyError naming the missing field of the first such record
\* ('Tender Title' before 'Entity'); the run never gets past the filter and
\* produces no filtered output, grouping, JSON file or report.
C7_KeyErrorAborts ==
  Malformed # {} =>
    /\ pc \in {"start", "filter", "done"}
    /\ pc = "done" =>
         /\ error.raised
         /\ error.type = "KeyError"
         /\ error.arg = (IF "Tender Title" \notin DOMAIN file.content[FirstMalformed]
                           THEN "Tender Title" ELSE "Entity")
         /\ NoOutput

C7_Witness ==
  /\ pc = "done"
  /\ Malformed # {}
  /\ error.raised
  /\ FirstMalformed > 1

\* C8: filtering leaves every input record as it was loaded.
C8_InputsUntouched ==
  pc \in {"filter", "organize"} => heap = file.content

\* both direct calls of filter_tenders have returned
CalledTwice == pc = "done" /\ call = 2 /\ ~error.raised

\* C9 as stated: the second call yields the list the first call yielded,
\* with the same fields and the same values.
C9_SecondCallIdentical ==
  CalledTwice => second_result = first_result

\* C9 amended: the second call keeps the same tenders with the same
\* Match_Reason and the same fields; every value is the same except that
\* of Scraped_At, which is the time of the later call.
C9_SecondCallSameButTime ==
  CalledTwice =>
    /\ Len(second_result) = Len(first_result)
    /\ \A n \in 1..Len(first_result) :
         /\ DOMAIN second_result[n] = DOMAIN first_result[n]
         /\ \A k \in DOMAIN first_result[n] \ {"Scraped_At"} :
              second_result[n][k] = first_result[n][k]
         /\ second_result[n]["Scraped_At"] \in {isoformat(t) : t \in 0..clock}

C9_Witness ==
  /\ CalledTwice
  /\ Len(first_result) >= 1
  /\ second_result # first_result

\* the feeding back of the returned list happened, with a tender dropped
C9_WitnessFedBack ==
  /\ CalledTwice
  /\ Len(first_result) >= 1
  /\ Len(tenders) < Len(all_tenders)

\* run has written the report
Reported == pc = "done" /\ report_file.written

\* the lines of a report before its entity listing, and around its detail title
HeadLines == 10
DetailTitleLines == 3
BlockHeadLines == 3
TenderLines == 4

\* the line at which the detail block of key n starts
BlockStart(org, n) ==
  HeadLines + Len(org) + DetailTitleLines
    + Sum([m \in 1..(n - 1) |-> BlockHeadLines + TenderLines * Len(org[m].value)]) + 1

\* the tender lines of a list of records
BulletLine(t) == "  * " \o t["Tender No"] \o ": " \o t["Tender Title"]

\* C10: the report's total is the sum of the per-entity list lengths and the
\* number of tenders the filter kept, its entity count is the number of
\* keys, the count listing and the detail blocks follow the key order of the
\* mapping, and every kept tender has exactly one entry in the detail section.
C10_ReportCounts ==
  Reported =>
    LET lines == report_file.content
        org == ret.value
        bullets == SelectSeq(lines, LAMBDA l : StartsWith(l, "  * "))
    IN /\ lines[7] = "- Total filtered tenders: " \o ToString(Len(run_filtered))
       /\ Len(run_filtered) = Sum([n \in 1..Len(org) |-> Len(org[n].value)])
       /\ lines[8] = "- Unique entities: " \o ToString(Len(org))
       /\ \A n \in 1..Len(org) :
            /\ lines[HeadLines + n] =
                 "- " \o org[n].key \o ": " \o ToString(Len(org[n].value)) \o " tender(s)"
            /\ lines[BlockStart(org, n) + 1] = upper(org[n].key) \o ":"
       /\ Len(lines) = BlockStart(org, Len(org) + 1) - 1
       /\ bullets = [n \in 1..Len(Flatten(org)) |-> BulletLine(heap[Flatten(org)[n]])]
       /\ \A l \in Range(bullets) :
            Count(bullets, l) =
              Cardinality({n \in 1..Len(run_filtered) : BulletLine(heap[run_filtered[n]]) = l})

C10_Witness ==
  /\ Reported
  /\ Len(ret.value) = 2

C10_WitnessShared ==
  /\ Reported
  /\ Len(ret.value) = 1
  /\ Len(run_filtered) = 2
====
